---- MODULE Spec2Model ----
(***************************************************************************)
(* The app lifecycle orchestrator of app-sync: one app object (app.js) and *)
(* the calls made on it (download, update, start, stop, restart), and the  *)
(* Github web-hook handler (api-webhook.js) that dispatches update() to    *)
(* the registered apps.                                                    *)
(*                                                                         *)
(* Every call on the app is a task: a stack of frames, one per pending     *)
(* promise of the call chain (update -> start -> update -> ...).  A step   *)
(* of the model is one continuation of the single-threaded event loop: it  *)
(* runs from one resumption (a promise settling) to the next yield.        *)
(***************************************************************************)
EXTENDS Integers, Sequences, FiniteSets, TLC

\* Bounds of the model.
MaxCalls == 2          \* calls issued on the app
MaxRefLen == 3         \* characters of a notification's ref
NumApps == 2           \* apps registered with the web-hook
MaxRepoLen == 7        \* characters of settings.repo
MaxLiveCalls == 1      \* calls issued on the app whose external calls all settle
MaxPubCalls == 2       \* calls issued on an app whose publishEvent is missing or throws

VARIABLES
  isInstalled,         \* pm2.isInstalled
  hasPublish,          \* whether settings.publishEvent was supplied
  publishThrows,       \* whether the publishEvent supplied throws when called
  localVersion,        \* version of the local package.json, 0: no local package
  remoteVersion,       \* version of the remote package.json, 0: it does not exist
  downloading,         \* this.downloading: 0 (deleted) or the operation held
  dls,                 \* the appDownload operations invoked so far
  running,             \* whether pm2 runs a process named processName
  startedWhileRunning, \* a pm2 start was issued while that process was running
  tasks,               \* the calls issued on the app
  apps,                \* settings.apps of the web-hook
  hookReq,             \* the request of the last post, its branch as resolved
  hookUpdated,         \* how often the last post invoked update() on each app
  hookStatus,          \* the status the last post responded with, 0: no post yet
  settings,            \* the settings the app factory is called with
  registered           \* what the factory call gave: the app, or the error thrown

appVars == <<isInstalled, hasPublish, publishThrows, localVersion, remoteVersion,
             downloading, dls, running, startedWhileRunning, tasks>>
hookVars == <<apps, hookReq, hookUpdated, hookStatus>>
factoryVars == <<settings, registered>>
vars == <<isInstalled, hasPublish, publishThrows, localVersion, remoteVersion,
          downloading, dls, running, startedWhileRunning, tasks,
          apps, hookReq, hookUpdated, hookStatus, settings, registered>>

----------------------------------------------------------------------------
\* Values a promise settles with.  st: "none" (pending), "resolved", "rejected".

NoVal ==
  [st |-> "none", err |-> "", exists |-> FALSE, updated |-> FALSE, version |-> 0,
   started |-> FALSE, stopped |-> FALSE, restarted |-> FALSE,
   dl |-> 0, installed |-> FALSE]

Rejected(e) == [NoVal EXCEPT !.st = "rejected", !.err = e]

\* appUpdate's result {exists, updated, version, started}.
UpdateVal(e, u, v, s) ==
  [NoVal EXCEPT !.st = "resolved", !.exists = e, !.updated = u, !.version = v,
                !.started = s]

\* start()'s result {id, port, routes, version, started, exists}.
StartVal(v, s) ==
  [NoVal EXCEPT !.st = "resolved", !.version = v, !.started = s, !.exists = s]

\* stop()'s result {id, stopped: true}.
StopVal == [NoVal EXCEPT !.st = "resolved", !.stopped = TRUE]

\* restart()'s result {id, restarted: true}.
RestartVal == [NoVal EXCEPT !.st = "resolved", !.restarted = TRUE]

\* An event of a task's trace: what the call did, at which depth of its stack.
Ev(e, d, a, b) == [ev |-> e, d |-> d, a |-> a, b |-> b]

NoVer == [exists |-> FALSE, local |-> 0, remote |-> 0]

Frame(op, pc) ==
  [op |-> op, pc |-> pc, start |-> FALSE, ver |-> NoVer, dl |-> 0,
   status |-> NoVal, val |-> NoVal]

NewTask(kind, start) ==
  [kind |-> kind, start |-> start, stack |-> <<>>, result |-> NoVal, trace |-> <<>>]

Top(task) == task.stack[Len(task.stack)]

Push(task, f) == [task EXCEPT !.stack = Append(@, f)]

SetTop(task, f) == [task EXCEPT !.stack[Len(task.stack)] = f]

Log(task, e, a, b) ==
  [task EXCEPT !.trace = Append(@, Ev(e, Len(task.stack), a, b))]

LogAt(task, d, e, a, b) == [task EXCEPT !.trace = Append(@, Ev(e, d, a, b))]

At(t, op, pc) ==
  /\ t \in DOMAIN tasks
  /\ tasks[t].stack # <<>>
  /\ Top(tasks[t]).op = op
  /\ Top(tasks[t]).pc = pc

\* A settled promise resumes whoever awaits it: the frame below, or the caller.
Deliver(task, val) ==
  IF task.stack = <<>>
  THEN [task EXCEPT !.result = val]
  ELSE SetTop(task, [Top(task) EXCEPT !.val = val])

Pop(task) == [task EXCEPT !.stack = SubSeq(@, 1, Len(@) - 1)]

----------------------------------------------------------------------------
\* update(): the handler on the promise of appUpdate.

ShouldPublishAlways(result) == hasPublish

ShouldPublish(result) == hasPublish /\ result.updated

PublishPayloadStale(task, result) == Top(task).ver.local

PublishPayload(task, result) == result.version

\* What the promise of the handler (updating.then(...)) settles with, updating
\* having resolved with result: the handler returns nothing, and it throws when
\* publishEvent does.
HandlerVal(result) ==
  IF ShouldPublish(result) /\ publishThrows
  THEN Rejected("publish")
  ELSE [NoVal EXCEPT !.st = "resolved"]

UpdateReturnsHandled(updating, handled) == handled

\* return updating;
UpdateReturns(updating, handled) == updating

\* The top frame's promise settles with val.  For update() the publishing handler
\* was attached first, so it runs before the caller's continuation.
Settle(task, val) ==
  LET f == Top(task)
      published ==
        IF f.op = "update" /\ val.st = "resolved" /\ ShouldPublish(val)
        THEN Log(task, "app:updated", PublishPayload(task, val), 0)
        ELSE task
      returned ==
        IF f.op = "update" /\ val.st = "resolved"
        THEN UpdateReturns(val, HandlerVal(val))
        ELSE val
  IN Deliver(Pop(published), returned)

----------------------------------------------------------------------------
\* Entering a call: the synchronous part of the call, up to its first yield.

\* update(options): appUpdate asks for this.version().
EnterUpdate(task, start) ==
  Push(task, [Frame("update", "version") EXCEPT !.start = start])

EnterStartUpdatesWithStart(task) ==
  Push(Push(task, Frame("start", "update")),
       [Frame("update", "version") EXCEPT !.start = TRUE])

\* start(): the coroutine yields this.update({ start: false }).
EnterStart(task) == EnterUpdate(Push(task, Frame("start", "update")), FALSE)

\* restart(): the coroutine yields this.start().
EnterRestart(task) == EnterStart(Push(task, Frame("restart", "start")))

StopCallsSupervisorAlways == TRUE

StopCallsSupervisor == isInstalled

\* stop(): with pm2 installed the coroutine yields pm2.connect() and then
\* pm2.delete(processName); without it the promise is resolved at once.
\* pm2.connect() changes nothing the app reads, so the frame starts where the
\* delete has been asked for.
EnterStop(task) ==
  IF StopCallsSupervisor
  THEN Log(Push(task, Frame("stop", "delete")), "connect", 0, 0)
  ELSE Deliver(LogAt(task, Len(task.stack) + 1, "stopped", 0, 0), StopVal)

----------------------------------------------------------------------------
\* download(options): the single-flight slot.

DownloadBusyNever == FALSE

\* if (this.downloading) { return this.downloading; }
DownloadBusy == downloading # 0

DefaultOptions == [install |-> TRUE, force |-> TRUE]

DownloadOptions ==
  {[install |-> TRUE, force |-> TRUE], [install |-> FALSE, force |-> FALSE]}

DownloadCallJoinerOptions(opts) ==
  IF DownloadBusy
  THEN [id |-> downloading, invoked |-> 0,
        dls |-> [dls EXCEPT ![downloading].opts = opts], slot |-> downloading]
  ELSE [id |-> Len(dls) + 1, invoked |-> 1,
        dls |-> Append(dls, [opts |-> opts, status |-> "pending", err |-> ""]),
        slot |-> Len(dls) + 1]

\* What download(opts) returns (id: the operation whose promise the caller gets)
\* and what it leaves in dls and in this.downloading.
DownloadCall(opts) ==
  IF DownloadBusy
  THEN [id |-> downloading, invoked |-> 0, dls |-> dls, slot |-> downloading]
  ELSE [id |-> Len(dls) + 1, invoked |-> 1,
        dls |-> Append(dls, [opts |-> opts, status |-> "pending", err |-> ""]),
        slot |-> Len(dls) + 1]

\* The then-handler of download(): delete this.downloading.  It is attached for
\* fulfilment only.
SlotAfterSettle(ok) == IF ok THEN 0 ELSE downloading

\* appDownload: force = false skips the materialization of a folder that is there.
Skips(opts) == ~opts.force /\ localVersion # 0

\* How an appDownload operation can end: "ok", or the error it rejects with.
AppDownloadOutcomes(opts) ==
  (IF Skips(opts) \/ remoteVersion # 0 THEN {"ok"} ELSE {})
  \cup (IF Skips(opts) THEN {} ELSE {"source"})
  \cup (IF opts.install /\ (Skips(opts) \/ remoteVersion # 0) THEN {"install"} ELSE {})

\* The local package.json after an appDownload operation ended with outcome.
LocalAfterDownload(opts, outcome) ==
  IF outcome \in {"ok", "install"} /\ ~Skips(opts) THEN remoteVersion ELSE localVersion

\* The value the promise of download operation i, invoked with opts, settles
\* with: {path, installed}, or the error.
DownloadVal(opts, i, outcome) ==
  IF outcome = "ok"
  THEN [NoVal EXCEPT !.st = "resolved", !.dl = i, !.installed = opts.install]
  ELSE [Rejected(outcome) EXCEPT !.dl = i]

----------------------------------------------------------------------------
\* appVersion and appUpdate.

\* Versions are compared for equality only: two of them, and 0 for a package.json
\* that is not there.  The remote package.json is the same throughout a run; the
\* local one changes with the downloads.
RemoteVersions == {0, 1, 2}

\* version(): the local and the remote package.json.
Version ==
  [exists |-> remoteVersion # 0, local |-> localVersion, remote |-> remoteVersion]

\* appUpdate downloads when the remote package exists and its version is not the
\* local one (no local package included).
NeedsDownload(ver) == ver.exists /\ ver.local # ver.remote

StartShouldExecAlways(status) == TRUE

\* if (status.exists !== false)
StartShouldExec(status) == status.exists # FALSE

----------------------------------------------------------------------------
\* Continuations.  Each takes the world w = [tasks, running, startedWhileRunning]
\* and the task t whose top frame is resumed, and gives the world after the
\* continuation has run to its next yield.

World == [tasks |-> tasks, running |-> running,
          startedWhileRunning |-> startedWhileRunning]

SetTask(w, t, task) == [w EXCEPT !.tasks[t] = task]

\* Whether the promise the top frame of task yielded has settled.
Resumable(task, op, pc) ==
  /\ task.stack # <<>>
  /\ Top(task).op = op
  /\ Top(task).pc = pc
  /\ Top(task).val.st # "none"

\* download(): the caller of app.download() gets the promise's value v.
DownloadReturns(w, t, v) ==
  SetTask(w, t, Settle(Log(w.tasks[t], "downloaded", v.dl,
                           IF v.st = "resolved" THEN 1 ELSE 0), v))

\* appUpdate: this.download() settled with v; on success start() is called when
\* options.start.
UpdateAfterDownload(w, t, v) ==
  LET f == Top(w.tasks[t])
      got == Log(w.tasks[t], "downloaded", v.dl, IF v.st = "resolved" THEN 1 ELSE 0)
  IN SetTask(w, t,
       IF v.st = "rejected" THEN Settle(got, Rejected(v.err))
       ELSE IF f.start THEN EnterStart(SetTop(got, [f EXCEPT !.pc = "start"]))
       ELSE Settle(got, UpdateVal(TRUE, TRUE, f.ver.remote, FALSE)))

\* appUpdate: this.start() settled.
UpdateAfterStart(w, t) ==
  LET f == Top(w.tasks[t])
  IN SetTask(w, t,
       IF f.val.st = "rejected" THEN Settle(w.tasks[t], Rejected(f.val.err))
       ELSE Settle(w.tasks[t], UpdateVal(TRUE, TRUE, f.ver.remote, f.val.started)))

StartAfterUpdateIgnoresRejection(w, t) ==
  LET f == Top(w.tasks[t])
  IN SetTask(w, t,
       EnterStop(SetTop(w.tasks[t],
                        [f EXCEPT !.pc = "stop", !.status = f.val, !.val = NoVal])))

StartAfterUpdateNoStop(w, t) ==
  LET f == Top(w.tasks[t])
  IN SetTask(w, t,
       IF f.val.st = "rejected" THEN Settle(w.tasks[t], Rejected(f.val.err))
       ELSE SetTop(w.tasks[t], [f EXCEPT !.pc = "stop", !.status = f.val, !.val = StopVal]))

\* start(): this.update({ start: false }) settled; then yield this.stop().
StartAfterUpdate(w, t) ==
  LET f == Top(w.tasks[t])
  IN SetTask(w, t,
       IF f.val.st = "rejected" THEN Settle(w.tasks[t], Rejected(f.val.err))
       ELSE EnterStop(SetTop(w.tasks[t],
                             [f EXCEPT !.pc = "stop", !.status = f.val, !.val = NoVal])))

\* start(): this.stop() settled; shell.exec(`pm2 start ...`) unless the app does
\* not exist remotely.  shell.exec returns the command's exit code and does not
\* throw: ok is whether pm2 started the process.
StartAfterStop(w, t, ok) ==
  LET f == Top(w.tasks[t])
      up == isInstalled /\ ok
  IN IF f.val.st = "rejected" THEN SetTask(w, t, Settle(w.tasks[t], Rejected(f.val.err)))
     ELSE IF StartShouldExec(f.status)
     THEN [tasks |-> [w.tasks EXCEPT ![t] =
                        Settle(Log(w.tasks[t], "exec", IF up THEN 1 ELSE 0, 0),
                               StartVal(f.status.version, TRUE))],
           running |-> (w.running \/ up),
           startedWhileRunning |-> (w.startedWhileRunning \/ w.running)]
     ELSE SetTask(w, t, Settle(w.tasks[t], StartVal(f.status.version, FALSE)))

RestartPublishesAlways(started) == TRUE

\* publishEvent("app:restarted", ...) comes after yield this.start(), which
\* throws when start() rejected.
RestartPublishes(started) == started.st = "resolved"

RestartOutcomeGuarded(started) ==
  IF started.st = "rejected" THEN Rejected(started.err)
  ELSE IF hasPublish /\ publishThrows THEN Rejected("publish")
  ELSE RestartVal

\* What restart() settles with: publishEvent("app:restarted", ...) is a TypeError
\* when no publishEvent was supplied, and what it throws is caught and rejects
\* restart().
RestartOutcome(started) ==
  IF started.st = "rejected" THEN Rejected(started.err)
  ELSE IF ~hasPublish THEN Rejected("TypeError")
  ELSE IF publishThrows THEN Rejected("publish")
  ELSE RestartVal

\* restart(): this.start() settled; publishEvent("app:restarted", ...), and
\* resolve({ id, restarted: true }).
RestartAfterStart(w, t) ==
  LET started == Top(w.tasks[t]).val
      called == IF RestartPublishes(started) /\ hasPublish
                THEN Log(w.tasks[t], "app:restarted", 0, 0)
                ELSE w.tasks[t]
  IN SetTask(w, t, Settle(called, RestartOutcome(started)))

\* The continuations of task t that are ready run one after the other, until its
\* top frame waits for a promise that has not settled.
RECURSIVE Resume(_, _, _)
Resume(w, t, ok) ==
  LET task == w.tasks[t]
  IN CASE Resumable(task, "start", "update") -> Resume(StartAfterUpdate(w, t), t, ok)
       [] Resumable(task, "start", "stop") -> Resume(StartAfterStop(w, t, ok), t, ok)
       [] Resumable(task, "update", "start") -> Resume(UpdateAfterStart(w, t), t, ok)
       [] Resumable(task, "restart", "start") -> Resume(RestartAfterStart(w, t), t, ok)
       [] OTHER -> w

\* Whether the top frame of task awaits the promise of download operation i.
Awaits(task, i) ==
  /\ task.stack # <<>>
  /\ Top(task).op \in {"update", "download"}
  /\ Top(task).pc = "download"
  /\ Top(task).dl = i

\* The promise of download operation i settled with v: task t, if it awaits it,
\* goes on.
AfterDownload(w, t, i, v) ==
  IF ~Awaits(w.tasks[t], i) THEN w
  ELSE IF Top(w.tasks[t]).op = "download" THEN Resume(DownloadReturns(w, t, v), t, FALSE)
  ELSE Resume(UpdateAfterDownload(w, t, v), t, FALSE)

\* ... and so for the tasks 1 .. n, in the order they attached.
RECURSIVE AfterDownloadAll(_, _, _, _)
AfterDownloadAll(w, n, i, v) ==
  IF n = 0 THEN w ELSE AfterDownload(AfterDownloadAll(w, n - 1, i, v), n, i, v)

----------------------------------------------------------------------------
\* Calls issued on the app.

CanCall == Len(tasks) < MaxCalls

\* app.update(options)
CallUpdate(start) ==
  /\ CanCall
  /\ tasks' = Append(tasks, EnterUpdate(NewTask("update", start), start))
  /\ UNCHANGED <<isInstalled, hasPublish, publishThrows, localVersion, remoteVersion,
                 downloading, dls, running, startedWhileRunning>>
  /\ UNCHANGED hookVars
  /\ UNCHANGED factoryVars

\* app.start()
CallStart ==
  /\ CanCall
  /\ tasks' = Append(tasks, EnterStart(NewTask("start", FALSE)))
  /\ UNCHANGED <<isInstalled, hasPublish, publishThrows, localVersion, remoteVersion,
                 downloading, dls, running, startedWhileRunning>>
  /\ UNCHANGED hookVars
  /\ UNCHANGED factoryVars

\* app.stop()
CallStop ==
  /\ CanCall
  /\ tasks' = Append(tasks, EnterStop(NewTask("stop", FALSE)))
  /\ UNCHANGED <<isInstalled, hasPublish, publishThrows, localVersion, remoteVersion,
                 downloading, dls, running, startedWhileRunning>>
  /\ UNCHANGED hookVars
  /\ UNCHANGED factoryVars

\* app.restart()
CallRestart ==
  /\ CanCall
  /\ tasks' = Append(tasks, EnterRestart(NewTask("restart", FALSE)))
  /\ UNCHANGED <<isInstalled, hasPublish, publishThrows, localVersion, remoteVersion,
                 downloading, dls, running, startedWhileRunning>>
  /\ UNCHANGED hookVars
  /\ UNCHANGED factoryVars

\* app.download(opts).  A promise that has settled already (a failed operation
\* left in the slot) resumes the caller at once.
CallDownload(opts) ==
  /\ CanCall
  /\ LET c == DownloadCall(opts)
         t == Len(tasks) + 1
         f == [Frame("download", "download") EXCEPT !.dl = c.id]
         asked == Log(Push(NewTask("download", FALSE), f), "options",
                      IF opts.install THEN 1 ELSE 0, IF opts.force THEN 1 ELSE 0)
         called == Append(tasks, Log(asked, "download", c.id, c.invoked))
         w == [World EXCEPT !.tasks = called]
     IN /\ tasks' = IF c.dls[c.id].status = "pending" THEN called
                    ELSE AfterDownload(w, t, c.id,
                                       DownloadVal(c.dls[c.id].opts, c.id, c.dls[c.id].err)).tasks
        /\ dls' = c.dls
        /\ downloading' = c.slot
  /\ UNCHANGED <<isInstalled, hasPublish, publishThrows, localVersion, remoteVersion, running,
                 startedWhileRunning>>
  /\ UNCHANGED hookVars
  /\ UNCHANGED factoryVars

----------------------------------------------------------------------------
\* Completions of the asynchronous operations.

\* appUpdate: this.version() resolved.
VersionResolves(t) ==
  /\ At(t, "update", "version")
  /\ LET ver == Version
         seen == Log(SetTop(tasks[t], [Top(tasks[t]) EXCEPT !.ver = ver]),
                     "version", IF ver.exists THEN 1 ELSE 0,
                     IF ver.local = ver.remote THEN 1 ELSE 0)
         c == DownloadCall(DefaultOptions)
         called == Log(SetTop(seen, [Top(seen) EXCEPT !.pc = "download", !.dl = c.id]),
                       "download", c.id, c.invoked)
         w == IF ~NeedsDownload(ver)
              THEN Resume(SetTask(World, t,
                            Settle(seen, UpdateVal(ver.exists, FALSE, ver.remote, FALSE))),
                          t, FALSE)
              ELSE IF c.dls[c.id].status = "pending"
              THEN SetTask(World, t, called)
              ELSE AfterDownload(SetTask(World, t, called), t, c.id,
                                 DownloadVal(c.dls[c.id].opts, c.id, c.dls[c.id].err))
     IN /\ tasks' = w.tasks
        /\ running' = w.running
        /\ startedWhileRunning' = w.startedWhileRunning
        /\ dls' = IF NeedsDownload(ver) THEN c.dls ELSE dls
        /\ downloading' = IF NeedsDownload(ver) THEN c.slot ELSE downloading
  /\ UNCHANGED <<isInstalled, hasPublish, publishThrows, localVersion, remoteVersion>>
  /\ UNCHANGED hookVars
  /\ UNCHANGED factoryVars

\* appUpdate: this.version() rejected (the remote could not be reached).
VersionFails(t) ==
  /\ At(t, "update", "version")
  /\ LET w == Resume(SetTask(World, t, Settle(tasks[t], Rejected("version"))), t, FALSE)
     IN /\ tasks' = w.tasks
        /\ running' = w.running
        /\ startedWhileRunning' = w.startedWhileRunning
  /\ UNCHANGED <<isInstalled, hasPublish, publishThrows, localVersion, remoteVersion,
                 downloading, dls>>
  /\ UNCHANGED hookVars
  /\ UNCHANGED factoryVars

\* The promise of appDownload operation i settles, and with it the promise that
\* download() derived from it; whoever awaits it goes on.
DownloadSettles(i, outcome) ==
  /\ i \in DOMAIN dls
  /\ dls[i].status = "pending"
  /\ outcome \in AppDownloadOutcomes(dls[i].opts)
  /\ dls' = [dls EXCEPT ![i].status = IF outcome = "ok" THEN "ok" ELSE "failed",
                        ![i].err = IF outcome = "ok" THEN "" ELSE outcome]
  /\ localVersion' = LocalAfterDownload(dls[i].opts, outcome)
  /\ downloading' = SlotAfterSettle(outcome = "ok")
  /\ LET w == AfterDownloadAll(World, Len(tasks), i, DownloadVal(dls[i].opts, i, outcome))
     IN /\ tasks' = w.tasks
        /\ running' = w.running
        /\ startedWhileRunning' = w.startedWhileRunning
  /\ UNCHANGED <<isInstalled, hasPublish, publishThrows, remoteVersion>>
  /\ UNCHANGED hookVars
  /\ UNCHANGED factoryVars

\* pm2 carries out the delete of processName that task t asked for.
Pm2Deletes(t) ==
  /\ At(t, "stop", "delete")
  /\ running' = FALSE
  /\ tasks' = [tasks EXCEPT ![t] =
                 Log(SetTop(tasks[t], [Top(tasks[t]) EXCEPT !.pc = "deleted"]),
                     "delete", IF running THEN 1 ELSE 0, 0)]
  /\ UNCHANGED <<isInstalled, hasPublish, publishThrows, localVersion, remoteVersion,
                 downloading, dls, startedWhileRunning>>
  /\ UNCHANGED hookVars
  /\ UNCHANGED factoryVars

\* stop(): pm2.delete(processName) resolved; resolve({ id, stopped: true }).
\* ok: whether the pm2 start that start() may go on to issue starts the process.
StopDeleted(t, ok) ==
  /\ At(t, "stop", "deleted")
  /\ LET w == Resume(SetTask(World, t, Settle(Log(tasks[t], "stopped", 0, 0), StopVal)),
                     t, ok)
     IN /\ tasks' = w.tasks
        /\ running' = w.running
        /\ startedWhileRunning' = w.startedWhileRunning
  /\ UNCHANGED <<isInstalled, hasPublish, publishThrows, localVersion, remoteVersion,
                 downloading, dls>>
  /\ UNCHANGED hookVars
  /\ UNCHANGED factoryVars

----------------------------------------------------------------------------
\* The Github web-hook (api-webhook.js).  Strings that the handler takes apart are
\* sequences of characters.

Chars == {"/", "m"}

Branches == {<<"m">>, <<"m", "m">>}

Repos == {"acme/svc-a", "acme/svc-b"}

\* The values of data.ref: absent, or a string of at most MaxRefLen characters.
Refs ==
  {[present |-> FALSE, s |-> <<>>]}
  \cup {[present |-> TRUE, s |-> s] : s \in UNION {[1 .. n -> Chars] : n \in 0 .. MaxRefLen}}

\* The request bodies: {ref, repository: {full_name, default_branch}}.
Notifications == [ref : Refs, default_branch : Branches, full_name : Repos]

\* s.split("/")
RECURSIVE Split(_)
Split(s) ==
  IF \A i \in 1 .. Len(s) : s[i] # "/" THEN <<s>>
  ELSE LET i == CHOOSE k \in 1 .. Len(s) : s[k] = "/" /\ \A j \in 1 .. k - 1 : s[j] # "/"
       IN <<SubSeq(s, 1, i - 1)>> \o Split(SubSeq(s, i + 1, Len(s)))

\* R.last(list)
Last(list) == list[Len(list)]

\* (data.ref && R.last(data.ref.split("/"))) || data.repository.default_branch:
\* an absent or empty ref, and an empty last segment, are falsy.
Branch(data) ==
  IF data.ref.present /\ data.ref.s # <<>> /\ Last(Split(data.ref.s)) # <<>>
  THEN Last(Split(data.ref.s))
  ELSE data.default_branch

isRepoMatchAnyBranch(app, repo, branch) == app.repo = repo

\* (app) => app.repo.name === repo && app.branch === branch
isRepoMatch(app, repo, branch) == app.repo = repo /\ app.branch = branch

\* post(req, res): update() is invoked on every matching app, and the response is
\* sent with status 200.  What an update() call goes on to do is Spec's CallUpdate.
Post(data) ==
  /\ data \in Notifications
  /\ LET branch == Branch(data)
         repo == data.full_name
         matchingApps == SelectSeq(apps, LAMBDA app : isRepoMatch(app, repo, branch))
     IN /\ hookUpdated' =
             [a \in 1 .. NumApps |->
                IF Len(matchingApps) > 0
                THEN Cardinality({k \in 1 .. Len(matchingApps) : matchingApps[k].id = a})
                ELSE 0]
        /\ hookReq' = [ref |-> data.ref, default_branch |-> data.default_branch,
                       full_name |-> data.full_name, branch |-> branch]
  /\ hookStatus' = 200
  /\ UNCHANGED apps
  /\ UNCHANGED appVars
  /\ UNCHANGED factoryVars

NoReq == [ref |-> [present |-> FALSE, s |-> <<>>], default_branch |-> <<>>,
          full_name |-> "", branch |-> <<>>]

Registry == <<[id |-> 1, repo |-> "acme/svc-a", branch |-> <<"m">>],
              [id |-> 2, repo |-> "acme/svc-b", branch |-> <<"m">>]>>

----------------------------------------------------------------------------
\* The app factory (app.js, the default export).  A setting is absent, or a
\* string: a sequence of characters.

Absent == [present |-> FALSE, s |-> <<>>]

Str(s) == [present |-> TRUE, s |-> s]

RepoChars == {"/", "a"}

\* The values of settings.repo: absent, or a string of at most MaxRepoLen
\* characters.
RepoSettings ==
  {Absent} \cup {Str(s) : s \in UNION {[1 .. n -> RepoChars] : n \in 0 .. MaxRepoLen}}

\* {id, repo, userAgent, route, branch} of the settings.
Settings ==
  [id : {Absent, Str(<<>>), Str(<<"a">>)},
   repo : RepoSettings,
   userAgent : {Absent, Str(<<"a">>)},
   route : {Absent, Str(<<>>), Str(<<"a">>)},
   branch : {Absent, Str(<<"m">>)}]

\* isEmpty(value) of ./util: undefined, null and "" are empty.
isEmpty(value) == ~value.present \/ value.s = <<>>

\* list[i - 1] of Javascript: undefined (here: empty) outside the list.
Nth(list, i) == IF i \in DOMAIN list THEN list[i] ELSE <<>>

\* R.takeLast(n, list)
TakeLast(n, list) ==
  IF n >= 0 THEN SubSeq(list, Len(list) - n + 1, Len(list)) ELSE list

\* list.join("/")
RECURSIVE Join(_)
Join(list) ==
  IF list = <<>> THEN <<>>
  ELSE IF Len(list) = 1 THEN list[1]
  ELSE list[1] \o <<"/">> \o Join(Tail(list))

RepoTooShortNever(parts) == FALSE

\* if (parts.length < 2)
RepoTooShort(parts) == Len(parts) < 2

NoApp ==
  [st |-> "none", err |-> "", repoUser |-> <<>>, repoName |-> <<>>,
   repoSubFolder |-> <<>>, fullPath |-> <<>>, branch |-> <<>>]

\* throw new Error(...)
Thrown(e) == [NoApp EXCEPT !.st = "thrown", !.err = e]

\* What the factory gives for the settings s: the error it throws, or the app.
Factory(s) ==
  IF isEmpty(s.id) THEN Thrown("id")
  ELSE IF isEmpty(s.repo) THEN Thrown("repo")
  ELSE IF isEmpty(s.userAgent) THEN Thrown("userAgent")
  ELSE IF isEmpty(s.route) THEN Thrown("route")
  ELSE LET parts == Split(s.repo.s)
       IN IF RepoTooShort(parts) THEN Thrown("repo-parts")
          ELSE [NoApp EXCEPT
                  !.st = "app",
                  !.repoUser = Nth(parts, 1),
                  !.repoName = Nth(parts, 2),
                  !.repoSubFolder = Join(TakeLast(Len(parts) - 2, parts)),
                  !.fullPath = s.repo.s,
                  !.branch = IF isEmpty(s.branch) THEN <<"master">> ELSE s.branch.s]

\* The factory is called with the settings.
Register ==
  /\ registered.st = "none"
  /\ registered' = Factory(settings)
  /\ UNCHANGED settings
  /\ UNCHANGED appVars
  /\ UNCHANGED hookVars

\* The settings of the app that Spec and SpecHook are about.
AppSettings ==
  [id |-> Str(<<"a">>), repo |-> Str(<<"a", "/", "a">>), userAgent |-> Str(<<"a">>),
   route |-> Str(<<"a">>), branch |-> Absent]

----------------------------------------------------------------------------
\* The app and the calls on it.  With no local package the remote one is missing
\* or of some version (one stands for all), and pm2 runs no process of the app:
\* it runs the app from its local folder.

Init ==
  /\ isInstalled \in BOOLEAN
  /\ hasPublish = TRUE
  /\ publishThrows = FALSE
  /\ localVersion \in {0, 1}
  /\ remoteVersion \in (IF localVersion = 0 THEN {0, 1} ELSE RemoteVersions)
  /\ downloading = 0
  /\ dls = <<>>
  /\ running \in (IF isInstalled /\ localVersion # 0 THEN BOOLEAN ELSE {FALSE})
  /\ startedWhileRunning = FALSE
  /\ tasks = <<>>
  /\ apps = Registry
  /\ hookReq = NoReq
  /\ hookUpdated = [a \in 1 .. NumApps |-> 0]
  /\ hookStatus = 0
  /\ settings = AppSettings
  /\ registered = Factory(AppSettings)

Next ==
  \/ \E start \in BOOLEAN : CallUpdate(start)
  \/ CallStart
  \/ CallStop
  \/ CallRestart
  \/ \E opts \in DownloadOptions : CallDownload(opts)
  \/ \E t \in DOMAIN tasks : VersionResolves(t)
  \/ \E t \in DOMAIN tasks : VersionFails(t)
  \/ \E i \in DOMAIN dls : \E outcome \in {"ok", "source", "install"} :
       DownloadSettles(i, outcome)
  \/ \E t \in DOMAIN tasks : Pm2Deletes(t)
  \/ \E t \in DOMAIN tasks : \E ok \in BOOLEAN : StopDeleted(t, ok)

Spec == Init /\ [][Next]_vars

\* An external call that is pending settles: the version resolution, a download,
\* pm2's delete and its callback.
Settles ==
  \/ \E t \in DOMAIN tasks : VersionResolves(t)
  \/ \E t \in DOMAIN tasks : VersionFails(t)
  \/ \E i \in DOMAIN dls : \E outcome \in {"ok", "source", "install"} :
       DownloadSettles(i, outcome)
  \/ \E t \in DOMAIN tasks : Pm2Deletes(t)
  \/ \E t \in DOMAIN tasks : \E ok \in BOOLEAN : StopDeleted(t, ok)

NextLive ==
  \/ \E start \in BOOLEAN : Len(tasks) < MaxLiveCalls /\ CallUpdate(start)
  \/ Len(tasks) < MaxLiveCalls /\ CallStart
  \/ Len(tasks) < MaxLiveCalls /\ CallStop
  \/ Len(tasks) < MaxLiveCalls /\ CallRestart
  \/ \E opts \in DownloadOptions : Len(tasks) < MaxLiveCalls /\ CallDownload(opts)
  \/ Settles

\* The app and the calls on it, pm2 carrying out every delete it is asked for.
SpecLive ==
  Init /\ [][NextLive]_vars /\ WF_vars(\E t \in DOMAIN tasks : Pm2Deletes(t))

\* The app created without a publishEvent, or with one that throws, and the
\* update() and restart() calls on it.
InitPub ==
  /\ isInstalled \in BOOLEAN
  /\ hasPublish \in BOOLEAN
  /\ publishThrows = hasPublish
  /\ localVersion \in {0, 1}
  /\ remoteVersion \in (IF localVersion = 0 THEN {0, 1} ELSE RemoteVersions)
  /\ downloading = 0
  /\ dls = <<>>
  /\ running \in (IF isInstalled /\ localVersion # 0 THEN BOOLEAN ELSE {FALSE})
  /\ startedWhileRunning = FALSE
  /\ tasks = <<>>
  /\ apps = Registry
  /\ hookReq = NoReq
  /\ hookUpdated = [a \in 1 .. NumApps |-> 0]
  /\ hookStatus = 0
  /\ settings = AppSettings
  /\ registered = Factory(AppSettings)

NextPub ==
  \/ \E start \in BOOLEAN : Len(tasks) < MaxPubCalls /\ CallUpdate(start)
  \/ Len(tasks) < MaxPubCalls /\ CallRestart
  \/ \E t \in DOMAIN tasks : VersionResolves(t)
  \/ \E t \in DOMAIN tasks : VersionFails(t)
  \/ \E i \in DOMAIN dls : \E outcome \in {"ok", "source", "install"} :
       DownloadSettles(i, outcome)
  \/ \E t \in DOMAIN tasks : Pm2Deletes(t)
  \/ \E t \in DOMAIN tasks : \E ok \in BOOLEAN : StopDeleted(t, ok)

SpecPub == InitPub /\ [][NextPub]_vars

\* The web-hook over a registry of NumApps apps.
InitHook ==
  /\ isInstalled = TRUE
  /\ hasPublish = TRUE
  /\ publishThrows = FALSE
  /\ localVersion = 0
  /\ remoteVersion = 0
  /\ downloading = 0
  /\ dls = <<>>
  /\ running = FALSE
  /\ startedWhileRunning = FALSE
  /\ tasks = <<>>
  /\ \E f \in [1 .. NumApps -> Repos \X Branches] :
       apps = [i \in 1 .. NumApps |-> [id |-> i, repo |-> f[i][1], branch |-> f[i][2]]]
  /\ hookReq = NoReq
  /\ hookUpdated = [a \in 1 .. NumApps |-> 0]
  /\ hookStatus = 0
  /\ settings = AppSettings
  /\ registered = Factory(AppSettings)

NextHook == \E data \in Notifications : Post(data)

SpecHook == InitHook /\ [][NextHook]_vars

\* The factory, called with any of the settings.
InitFactory ==
  /\ isInstalled = TRUE
  /\ hasPublish = TRUE
  /\ publishThrows = FALSE
  /\ localVersion = 0
  /\ remoteVersion = 0
  /\ downloading = 0
  /\ dls = <<>>
  /\ running = FALSE
  /\ startedWhileRunning = FALSE
  /\ tasks = <<>>
  /\ apps = Registry
  /\ hookReq = NoReq
  /\ hookUpdated = [a \in 1 .. NumApps |-> 0]
  /\ hookStatus = 0
  /\ settings \in Settings
  /\ registered = NoApp

NextFactory == Register

SpecFactory == InitFactory /\ [][NextFactory]_vars

----------------------------------------------------------------------------
\* What the claims are stated with.

Done(task) == task.stack = <<>> /\ task.result.st # "none"

\* The places of task's trace where event e was logged.
Events(task, e) == {k \in DOMAIN task.trace : task.trace[k].ev = e}

Pending == {i \in DOMAIN dls : dls[i].status = "pending"}

\* The frames that await the promise of a download operation.
Awaiting ==
  {f \in UNION {{tasks[t].stack[k] : k \in DOMAIN tasks[t].stack} : t \in DOMAIN tasks} :
     f.pc = "download"}

\* The download operation that task's (first) download() call returned, 0: none.
Joined(task) ==
  IF Events(task, "download") = {} THEN 0
  ELSE task.trace[CHOOSE k \in Events(task, "download") :
                    \A j \in Events(task, "download") : k <= j].a

\* C1: single-flight download.  While a download operation is in flight no second
\* appDownload is invoked (never two operations pending), every caller waiting
\* for a download waits for the one operation in the slot, and the download()
\* calls that got the same operation get the same result value.
C1_SingleFlight ==
  /\ Cardinality(Pending) <= 1
  /\ \A f \in Awaiting : dls[f.dl].status = "pending" /\ f.dl = downloading
  /\ \A t1, t2 \in DOMAIN tasks :
       (/\ tasks[t1].kind = "download" /\ Done(tasks[t1])
        /\ tasks[t2].kind = "download" /\ Done(tasks[t2])
        /\ Joined(tasks[t1]) = Joined(tasks[t2]))
       => tasks[t1].result = tasks[t2].result

\* Two download() calls were issued before the first settled; appDownload was
\* invoked once and both resolved with its result.
C1_Witness ==
  /\ Len(tasks) = 2
  /\ Len(dls) = 1
  /\ \A t \in {1, 2} : /\ tasks[t].kind = "download"
                       /\ Done(tasks[t])
                       /\ tasks[t].result.st = "resolved"
                       /\ tasks[t].result.dl = 1
  /\ tasks[2].trace[2] = Ev("download", 1, 1, 0)

\* C2: when a download fails, the in-flight slot is released: a failed operation
\* is never the one this.downloading holds, so a later download() invokes
\* appDownload anew.
C2_SlotReleasedOnFailure ==
  \A i \in DOMAIN dls : dls[i].status = "failed" => downloading # i

\* C3: update() on an app whose local and remote versions are equal resolves with
\* updated: false at once, and neither publishes nor downloads, stops or starts.
C3_NoOpWhenEqual ==
  \A t \in DOMAIN tasks :
    (/\ tasks[t].kind = "update"
     /\ tasks[t].trace # <<>>
     /\ tasks[t].trace[1] = Ev("version", 1, 1, 1))
    => /\ tasks[t].trace = <<Ev("version", 1, 1, 1)>>
       /\ Done(tasks[t])
       /\ tasks[t].result.st = "resolved"
       /\ tasks[t].result.updated = FALSE

\* update({ start: true }) found the versions equal and resolved.
C3_Witness ==
  \E t \in DOMAIN tasks :
    /\ tasks[t].kind = "update"
    /\ tasks[t].start
    /\ hasPublish
    /\ tasks[t].trace = <<Ev("version", 1, 1, 1)>>
    /\ tasks[t].result.st = "resolved"
    /\ localVersion = remoteVersion

\* C4: stop before start.  Whenever a call issues the pm2 start, its own stop()
\* has just resolved, and with pm2 installed that stop()'s pm2.delete of the
\* process name completed before it.
C4_StopBeforeStart ==
  \A t \in DOMAIN tasks : \A k \in Events(tasks[t], "exec") :
    /\ k > 1
    /\ tasks[t].trace[k - 1].ev = "stopped"
    /\ isInstalled => (k > 2 /\ tasks[t].trace[k - 2].ev = "delete")

\* update({ start: true }) downloaded a new version and started the app, with pm2
\* installed.
C4_Witness ==
  \E t \in DOMAIN tasks :
    /\ tasks[t].kind = "update"
    /\ tasks[t].start
    /\ isInstalled
    /\ Done(tasks[t])
    /\ tasks[t].result.updated
    /\ Events(tasks[t], "exec") # {}
    /\ Events(tasks[t], "delete") # {}

\* C5: under any interleaving of update(), start() and restart() calls, the pm2
\* start of the process name is never issued while an instance that another call
\* started is still running.
C5_NoStartWhileRunning == ~startedWhileRunning

Published(task) == {k \in Events(task, "app:updated") : task.trace[k].d = 1}

\* C7: an update() call publishes "app:updated" at most once, and only as it
\* resolves with updated: true: then (a publishEvent being supplied) exactly once,
\* with the version of its result, after its download succeeded and, with
\* options.start, after its start() issued the pm2 start; an update() that
\* rejects, or resolves with updated: false, publishes nothing.
C7_PublishOnUpdated ==
  \A t \in DOMAIN tasks :
    tasks[t].kind = "update" =>
      LET task == tasks[t]
          updated == Done(task) /\ task.result.st = "resolved" /\ task.result.updated
      IN /\ Cardinality(Published(task)) <= 1
         /\ Published(task) # {} => updated
         /\ (updated /\ hasPublish) =>
              /\ Published(task) = {Len(task.trace)}
              /\ task.trace[Len(task.trace)].a = task.result.version
              /\ \E k \in Events(task, "downloaded") :
                   task.trace[k].d = 1 /\ task.trace[k].b = 1
              /\ task.start => Events(task, "exec") # {}

\* update({ start: true }) resolved with updated: true and published the version.
C7_Witness ==
  \E t \in DOMAIN tasks :
    /\ tasks[t].kind = "update"
    /\ tasks[t].start
    /\ Done(tasks[t])
    /\ tasks[t].result.updated
    /\ tasks[t].result.started
    /\ Published(tasks[t]) # {}
    /\ tasks[t].result.version = 2
    /\ localVersion = 2

\* The frames of stop() that wait for pm2.
StopFrames ==
  {f \in UNION {{tasks[t].stack[k] : k \in DOMAIN tasks[t].stack} : t \in DOMAIN tasks} :
     f.op = "stop"}

C9_StartFailureRejects ==
  \A t \in DOMAIN tasks :
    (/\ isInstalled
     /\ Done(tasks[t])
     /\ \E k \in Events(tasks[t], "exec") : tasks[t].trace[k].a = 0)
    => tasks[t].result.st = "rejected"

\* The last path segment of s: what follows its last "/", all of s if it has none.
LastSegment(s) ==
  CHOOSE x \in {SubSeq(s, k, Len(s)) : k \in 1 .. Len(s) + 1} :
    /\ \A j \in 1 .. Len(x) : x[j] # "/"
    /\ Len(x) = Len(s) \/ s[Len(s) - Len(x)] = "/"

\* The branch a notification is about: the last path segment of its ref if there
\* is one (a ref, and a segment that is not empty), else the default branch.
NotifiedBranch(data) ==
  IF data.ref.present /\ LastSegment(data.ref.s) # <<>>
  THEN LastSegment(data.ref.s)
  ELSE data.default_branch

\* C10: a post invokes update() exactly once on every registered app whose repo
\* name and branch are the notification's, on no other app, and responds with
\* status 200 whatever the number of matches.
C10_Dispatch ==
  hookStatus # 0 =>
    /\ hookStatus = 200
    /\ \A a \in 1 .. NumApps :
         hookUpdated[a] = IF /\ apps[a].repo = hookReq.full_name
                             /\ apps[a].branch = NotifiedBranch(hookReq)
                          THEN 1 ELSE 0

\* A post whose ref has two segments updated the one app on its branch, and not
\* the app of the same repo on the default branch.
C10_Witness ==
  /\ hookStatus = 200
  /\ hookReq.ref = [present |-> TRUE, s |-> <<"m", "/", "m">>]
  /\ hookReq.default_branch = <<"m", "m">>
  /\ apps[1].repo = hookReq.full_name
  /\ apps[1].branch = <<"m">>
  /\ apps[2].repo = hookReq.full_name
  /\ apps[2].branch = <<"m", "m">>
  /\ hookUpdated[1] = 1
  /\ hookUpdated[2] = 0

\* The number of "/"-separated path segments of s.
SegmentCount(s) == 1 + Cardinality({k \in DOMAIN s : s[k] = "/"})

\* What is wrong with the settings: an empty id, a missing repo, a repo of fewer
\* than two path segments, an empty route.
Faults(s) ==
  (IF isEmpty(s.id) THEN {"id"} ELSE {})
  \cup (IF isEmpty(s.repo) THEN {"repo"} ELSE {})
  \cup (IF ~isEmpty(s.repo) /\ SegmentCount(s.repo.s) < 2 THEN {"repo-parts"} ELSE {})
  \cup (IF isEmpty(s.route) THEN {"route"} ELSE {})

\* C11: registration validation.  The factory, called with settings that have an
\* empty id, a missing repo, a repo of fewer than two path segments or an empty
\* route, throws and gives no app; and settings with exactly one of these faults
\* get the error of that fault, a different one for each.
C11_RegistrationValidation ==
  registered.st # "none" =>
    /\ Faults(settings) # {} => registered.st = "thrown"
    /\ \A fault \in {"id", "repo", "repo-parts", "route"} :
         (Faults(settings) = {fault} /\ ~isEmpty(settings.userAgent))
         => registered.err = fault

\* The factory threw the error of a repo with one path segment, id, user agent
\* and route being given.
C11_Witness ==
  /\ registered.st = "thrown"
  /\ registered.err = "repo-parts"
  /\ settings.repo = Str(<<"a", "a">>)
  /\ Faults(settings) = {"repo-parts"}

\* What follows the first two path segments of s and their separators.
AfterTwoSegments(s) ==
  IF SegmentCount(s) <= 2 THEN <<>>
  ELSE LET second == CHOOSE k \in DOMAIN s :
                       /\ s[k] = "/"
                       /\ Cardinality({j \in 1 .. k - 1 : s[j] = "/"}) = 1
       IN SubSeq(s, second + 1, Len(s))

\* C12: every app the factory gives has a non-empty repo owner and a non-empty
\* repo name, and its sub-path is what follows the first two path segments of
\* settings.repo (empty when there are only two).
C12_RepoParts ==
  registered.st = "app" =>
    /\ registered.repoUser # <<>>
    /\ registered.repoName # <<>>
    /\ registered.repoSubFolder = AfterTwoSegments(settings.repo.s)

\* The errors that start() and update() reject with: those of the version
\* resolution and of the download.
StartErrors == {"version", "source", "install"}

\* C13: a restart() call publishes "app:restarted" at most once, only after its
\* start() has completed, and exactly once when it resolves; if its start()
\* rejects, restart() rejects with that error and publishes nothing.
C13_RestartPublishes ==
  \A t \in DOMAIN tasks :
    tasks[t].kind = "restart" =>
      LET task == tasks[t]
          n == Len(task.trace)
      IN /\ Cardinality(Events(task, "app:restarted")) <= 1
         /\ Events(task, "app:restarted") # {} =>
              /\ Events(task, "app:restarted") = {n}
              /\ n > 1
              /\ task.trace[n - 1].ev \in {"exec", "stopped"}
              /\ task.trace[n - 1].d \in {2, 3}
              /\ Done(task)
              /\ task.result = RestartVal
         /\ (Done(task) /\ task.result.st = "resolved") =>
              Events(task, "app:restarted") # {}
         /\ (Done(task) /\ task.result.st = "rejected") =>
              /\ Events(task, "app:restarted") = {}
              /\ Events(task, "exec") = {}
              /\ task.result.err \in StartErrors

\* restart() started the app with pm2, published once and resolved.
C13_Witness ==
  \E t \in DOMAIN tasks :
    /\ tasks[t].kind = "restart"
    /\ isInstalled
    /\ Done(tasks[t])
    /\ tasks[t].result.restarted
    /\ Cardinality(Events(tasks[t], "app:restarted")) = 1
    /\ \E k \in Events(tasks[t], "exec") : tasks[t].trace[k].a = 1

\* C14: the in-flight slot is cleared when a download settles: a download that
\* has succeeded is never the one this.downloading holds, and in every state where
\* no download is pending the slot is empty, so that a download() issued after
\* the settle invokes appDownload again.
C14_SlotCleared ==
  /\ \A i \in DOMAIN dls : dls[i].status = "ok" => downloading # i
  /\ Pending = {} => downloading = 0

\* Call t is an update() or a start().
Issued(t) == t \in DOMAIN tasks /\ tasks[t].kind \in {"update", "start"}

\* Call t has resolved or rejected, and nothing it did was deeper than three
\* calls down its chain.
Finished(t) ==
  /\ t \in DOMAIN tasks
  /\ Done(tasks[t])
  /\ \A k \in DOMAIN tasks[t].trace : tasks[t].trace[k].d <= 3

\* An external call is pending: a version resolution, a download, a pm2 delete
\* or its callback.
ExternalPending ==
  \/ Pending # {}
  \/ \E t \in DOMAIN tasks :
       At(t, "update", "version") \/ At(t, "stop", "delete") \/ At(t, "stop", "deleted")

\* C15: when every external call settles (none stays pending for ever), every
\* update() and start() call terminates: it resolves or rejects in the end, and
\* its call chain (update -> start -> update) never goes deeper than three.
C15_Terminates ==
  []<>(~ExternalPending) => \A t \in 1 .. MaxLiveCalls : Issued(t) ~> Finished(t)

\* update({ start: true }) downloaded, started the app through start() and its
\* update({ start: false }), three calls deep, and resolved.
C15_Witness ==
  \E t \in DOMAIN tasks :
    /\ tasks[t].kind = "update"
    /\ tasks[t].start
    /\ Done(tasks[t])
    /\ tasks[t].result.started
    /\ \E k \in Events(tasks[t], "version") : tasks[t].trace[k].d = 3

\* The options that a download() call was given, as its trace has them.
AskedOptions(task) ==
  [install |-> task.trace[1].a = 1, force |-> task.trace[1].b = 1]

\* The value that the promise of download operation i has settled with.
SettledVal(i) ==
  DownloadVal(dls[i].opts, i, IF dls[i].status = "ok" THEN "ok" ELSE dls[i].err)

\* C16: a download() call that joins a download in flight has its options
\* ignored: every operation runs with the options of the call that invoked it
\* (those of download(), or appUpdate's defaults), and a download() call that
\* was handed an operation it did not invoke gets that operation's result.
C16_JoinerOptionsIgnored ==
  \A t \in DOMAIN tasks : \A k \in Events(tasks[t], "download") :
    LET task == tasks[t]
        i == task.trace[k].a
    IN /\ (task.trace[k].b = 1 /\ task.kind = "download") =>
            dls[i].opts = AskedOptions(task)
       /\ (task.trace[k].b = 1 /\ task.kind # "download") =>
            dls[i].opts = DefaultOptions
       /\ (task.trace[k].b = 0 /\ task.kind = "download" /\ Done(task)) =>
            task.result = SettledVal(i)

\* download({ install: false, force: false }) joined the download that a call
\* with the default options had in flight, and resolved with installed: true.
C16_Witness ==
  /\ Len(tasks) = 2
  /\ Len(dls) = 1
  /\ dls[1].opts = DefaultOptions
  /\ tasks[1].kind = "download"
  /\ tasks[2].kind = "download"
  /\ tasks[2].trace[2] = Ev("download", 1, 1, 0)
  /\ AskedOptions(tasks[2]) = [install |-> FALSE, force |-> FALSE]
  /\ Done(tasks[2])
  /\ tasks[2].result.st = "resolved"
  /\ tasks[2].result.installed

\* C17: a start() call on an app whose remote package.json does not exist still
\* performs stop() before it returns: it returns after its stop() resolved, with
\* pm2 installed after pm2 deleted the process name, and issues no pm2 start, so
\* that a process of the app that ran before the call is not running after it.
C17_MissingRemoteStops ==
  \A t \in DOMAIN tasks :
    (/\ tasks[t].kind = "start"
     /\ Done(tasks[t])
     /\ tasks[t].trace # <<>>
     /\ tasks[t].trace[1].ev = "version"
     /\ tasks[t].trace[1].a = 0)
    => LET task == tasks[t]
           n == Len(task.trace)
       IN /\ task.trace[n].ev = "stopped"
          /\ isInstalled => (n > 1 /\ task.trace[n - 1].ev = "delete")
          /\ Events(task, "exec") = {}
          /\ ~running

\* start() found no remote package.json, had pm2 delete the process that was
\* running, and resolved with started: false.
C17_Witness ==
  \E t \in DOMAIN tasks :
    /\ tasks[t].kind = "start"
    /\ Done(tasks[t])
    /\ tasks[t].result.st = "resolved"
    /\ ~tasks[t].result.started
    /\ ~tasks[t].result.exists
    /\ \E k \in Events(tasks[t], "delete") : tasks[t].trace[k].a = 1
    /\ ~running

\* What start() tells pm2 to do: connect, delete, and the pm2 start.
SupervisorEvents(task) ==
  Events(task, "connect") \cup Events(task, "delete") \cup Events(task, "exec")

\* C18: if the update({ start: false }) inside a start() call rejects (the version
\* resolution or the download failed), start() rejects with that error and has
\* issued neither the stop nor the start of the supervisor.
C18_UpdateRejectionInStart ==
  \A t \in DOMAIN tasks :
    tasks[t].kind = "start" =>
      LET task == tasks[t]
      IN /\ (Done(task) /\ task.trace = <<>>) => task.result = Rejected("version")
         /\ \A k \in Events(task, "downloaded") :
              task.trace[k].b = 0 =>
                /\ Done(task)
                /\ task.result = Rejected(dls[task.trace[k].a].err)
         /\ task.result.st = "rejected" =>
              /\ task.result.err \in StartErrors
              /\ SupervisorEvents(task) = {}
              /\ Events(task, "stopped") = {}

\* start() rejected with the install error of its download, and the process that
\* pm2 was running is still running.
C18_Witness ==
  \E t \in DOMAIN tasks :
    /\ tasks[t].kind = "start"
    /\ Done(tasks[t])
    /\ tasks[t].result = Rejected("install")
    /\ isInstalled
    /\ running
    /\ Len(tasks) = 1

\* The trace of task without the events of the publishEvent callback.
Unpublished(task) == SelectSeq(task.trace, LAMBDA e : e.ev # "app:updated")

\* C19: the outcome of update() does not depend on the publishEvent callback.
\* With no callback, or one that throws, an update() call settles with what its
\* version resolution, download and start came to, never with an error of the
\* publishing; without a callback nothing is published, and a callback that
\* throws has been called once when update() resolves with updated: true.
C19_UpdateIgnoresPublish ==
  \A t \in DOMAIN tasks :
    (tasks[t].kind = "update" /\ Done(tasks[t])) =>
      LET task == tasks[t]
          T == Unpublished(task)
          n == Len(T)
      IN /\ task.result.st = "rejected" => task.result.err \in StartErrors
         /\ n = 0 => task.result = Rejected("version")
         /\ (n = 1 /\ T[1].ev = "version") =>
              task.result = UpdateVal(T[1].a = 1, FALSE, remoteVersion, FALSE)
         /\ (n > 1 /\ ~task.start /\ T[n].ev = "downloaded" /\ T[n].b = 1) =>
              task.result = UpdateVal(TRUE, TRUE, remoteVersion, FALSE)
         /\ (n > 1 /\ T[n].ev = "exec") =>
              task.result = UpdateVal(TRUE, TRUE, remoteVersion, TRUE)
         /\ ~hasPublish => Events(task, "app:updated") = {}
         /\ (hasPublish /\ task.result.updated) =>
              Published(task) = {Len(task.trace)}

\* update({ start: true }) downloaded and started the app, called a publishEvent
\* that threw, and resolved with updated: true and started: true.
C19_Witness ==
  \E t \in DOMAIN tasks :
    /\ tasks[t].kind = "update"
    /\ hasPublish
    /\ publishThrows
    /\ Done(tasks[t])
    /\ tasks[t].result = UpdateVal(TRUE, TRUE, remoteVersion, TRUE)
    /\ Published(tasks[t]) # {}

\* C20: on an app created without a publishEvent callback, a restart() call whose
\* start() has completed (the process was stopped and the pm2 start issued)
\* rejects, with the TypeError of the missing callback and only then, while an
\* update() call rejects only with an error of its own steps and resolves once
\* its start() has completed.
C20_RestartWithoutCallback ==
  ~hasPublish =>
    \A t \in DOMAIN tasks :
      LET task == tasks[t]
          n == Len(task.trace)
          started == n > 0 /\ task.trace[n].ev \in {"exec", "stopped"}
      IN /\ (task.kind = "restart" /\ Done(task)) =>
              /\ task.result.st = "rejected"
              /\ Events(task, "app:restarted") = {}
              /\ started <=> task.result = Rejected("TypeError")
         /\ (task.kind = "update" /\ Done(task)) =>
              /\ task.result.st = "rejected" => task.result.err \in StartErrors
              /\ started => task.result.st = "resolved"

\* Without a publishEvent, restart() rejected after pm2 started the process, and
\* an update() call resolved.
C20_Witness ==
  /\ ~hasPublish
  /\ running
  /\ \E t \in DOMAIN tasks :
       /\ tasks[t].kind = "restart"
       /\ Done(tasks[t])
       /\ tasks[t].result = Rejected("TypeError")
       /\ \E k \in Events(tasks[t], "exec") : tasks[t].trace[k].a = 1
  /\ \E t \in DOMAIN tasks :
       /\ tasks[t].kind = "update"
       /\ Done(tasks[t])
       /\ tasks[t].result.st = "resolved"

====
